---------------------------- MODULE Spec2Model ----------------------------
(***************************************************************************)
(* surrealdb-rpc.py: the entity model (Table, RecordId, Thing), the        *)
(* lexical escaper, the value literal formatter and the msgpack extension  *)
(* codec, as a state machine whose actions are the calls a client makes.   *)
(*                                                                         *)
(* Python import resolution: the package directory data_model/ shadows the *)
(* module file data_model.py, so surrealdb_rpc.data_model.Thing, Table and *)
(* RecordId are the classes of data_model/thing.py.  data_model/thing.py   *)
(* imports String and EscapedString from data_model/string.py and the      *)
(* scalar types from data_model/ext_types.py; the only definitions of      *)
(* these classes in the sources are those of data_model.py, which are the  *)
(* ones modelled.  data_model/record_id.py defines a second, one-argument  *)
(* RecordId; it is modelled beside the first with the suffix 1.            *)
(*                                                                         *)
(* Text is a sequence of characters; a character is a one-character        *)
(* string, except for the four that the TLA+ lexer does not take inside a  *)
(* string, which are named below.                                          *)
(***************************************************************************)
EXTENDS Integers, Sequences, FiniteSets, TLC

\* op: the call made; arg: its arguments; obj: its outcome; wire: the outcome
\* of encoding obj; back: the outcome of decoding wire; warned: whether a direct
\* call of a String escaper has emitted a warning (the warnings of other calls
\* are not recorded); twice: the outcome of calling the escaper on obj.
VARIABLES op, arg, obj, wire, back, warned, twice

\* The client of client/websocket/surrealdb.py: message_id_counter and
\* variables are its fields; sent: the requests handed to the transport, in
\* order; received: the number of responses taken from the transport; call:
\* the last operation called, with what it did and how it ended.
VARIABLES message_id_counter, variables, sent, received, call

\* Objects of the application: heap holds the Table and RecordId objects made
\* so far, refs the references the application keeps to them (obj is an index
\* into heap, from the reference the object was constructed from, 0 for
\* none), last the last operation on them and its outcome.
VARIABLES heap, refs, last

dvars == <<op, arg, obj, wire, back, warned, twice>>

ovars == <<heap, refs, last>>

cvars == <<message_id_counter, variables, sent, received, call>>

vars == <<op, arg, obj, wire, back, warned, twice,
          message_id_counter, variables, sent, received, call, heap, refs, last>>

-----------------------------------------------------------------------------
(* Characters *)

LANGLE == "<"        \* U+27E8, the opening angle delimiter
RANGLE == ">"        \* U+27E9, the closing angle delimiter
BACKTICK == "BT"     \* U+0060
DQUOTE == "\""
EACUTE == "E'"       \* U+00E9, a letter outside ASCII
MICRO == "MU"        \* U+00B5, the micro sign

AsciiDigits == {"0", "1", "2", "3", "4", "5", "6", "7", "8", "9"}

AsciiLetters ==
    {"a", "b", "c", "d", "e", "f", "g", "h", "i", "j", "k", "l", "m", "n",
     "o", "p", "q", "r", "s", "t", "u", "v", "w", "x", "y", "z",
     "A", "B", "C", "D", "E", "F", "G", "H", "I", "J", "K", "L", "M", "N",
     "O", "P", "Q", "R", "S", "T", "U", "V", "W", "X", "Y", "Z"}

\* str.isalnum() of one character: letters and digits of any script.
isalnum(c) == c \in AsciiLetters \cup AsciiDigits \cup {EACUTE, MICRO}

\* str.isnumeric(): non-empty and every character numeric.
isnumeric(s) == Len(s) > 0 /\ \A i \in 1..Len(s) : s[i] \in AsciiDigits

\* The strings over alphabet A of length at most n.
RECURSIVE StringsUpTo(_, _)
StringsUpTo(A, n) ==
    IF n = 0 THEN {<< >>}
    ELSE LET shorter == StringsUpTo(A, n - 1)
         IN  shorter \cup {Append(s, c) : s \in shorter, c \in A}

\* str(i) of an integer: its decimal digits, with a minus sign when negative.
DigitOf(d) == CASE d = 0 -> "0" [] d = 1 -> "1" [] d = 2 -> "2" [] d = 3 -> "3"
                [] d = 4 -> "4" [] d = 5 -> "5" [] d = 6 -> "6" [] d = 7 -> "7"
                [] d = 8 -> "8" [] d = 9 -> "9"

RECURSIVE NatToChars(_)
NatToChars(n) == IF n < 10 THEN <<DigitOf(n)>>
                 ELSE Append(NatToChars(n \div 10), DigitOf(n % 10))

int_str(i) == IF i < 0 THEN <<"-">> \o NatToChars(-i) ELSE NatToChars(i)

-----------------------------------------------------------------------------
(* Python values.  Every value is [t |-> its type, v |-> its content].      *)
(* A str and an EscapedString (a UserString, not a str) both hold text.    *)

PyStr(s) == [t |-> "str", v |-> s]
EscapedString(s) == [t |-> "EscapedString", v |-> s]
PyInt(i) == [t |-> "int", v |-> i]
PyBool(b) == [t |-> "bool", v |-> b]
PyFloat(tenths) == [t |-> "float", v |-> tenths]
PyNone == [t |-> "NoneType", v |-> 0]
PyList(xs) == [t |-> "list", v |-> xs]
PyTuple(xs) == [t |-> "tuple", v |-> xs]
PyDict(kvs) == [t |-> "dict", v |-> kvs]       \* entries [k, val] in insertion order
ThingValue(o) == [t |-> "Thing", v |-> o]    \* a Table or RecordId object

\* The outcome of a call: a returned value or a raised exception.
Ok(x) == [ok |-> TRUE, val |-> x, err |-> "none"]
Err(e) == [ok |-> FALSE, val |-> PyNone, err |-> e]

\* isinstance(x, str); an EscapedString is not one.
is_str(x) == x.t = "str"
\* isinstance(x, int); bool is a subclass of int.
is_int(x) == x.t \in {"int", "bool"}

\* str(x) of an int or a bool.
py_str_int(x) == IF x.t = "bool"
                 THEN (IF x.v THEN <<"T", "r", "u", "e">> ELSE <<"F", "a", "l", "s", "e">>)
                 ELSE int_str(x.v)

-----------------------------------------------------------------------------
(* Lexical escaper: String and EscapedString of data_model.py *)

is_simple_char(c) == isalnum(c) \/ c = "_"

is_simple(x) == \A i \in 1..Len(x.v) : is_simple_char(x.v[i])

\* EscapedString.angle warns when it wraps text that is already wrapped.
angle_warns(x) == x.t # "EscapedString" /\ Len(x.v) > 0
                  /\ x.v[1] = LANGLE /\ x.v[Len(x.v)] = RANGLE

EscapedString_angle(x) ==
    IF x.t # "EscapedString"
    THEN EscapedString(<<LANGLE>> \o x.v \o <<RANGLE>>)
    ELSE EscapedString(x.v)

backtick_warns(x) == x.t # "EscapedString" /\ Len(x.v) > 0
                     /\ x.v[1] = BACKTICK /\ x.v[Len(x.v)] = BACKTICK

EscapedString_backtick(x) ==
    IF x.t # "EscapedString"
    THEN EscapedString(<<BACKTICK>> \o x.v \o <<BACKTICK>>)
    ELSE EscapedString(x.v)

escape_angle(x) == EscapedString_angle(x)

escape_backtick(x) == EscapedString_backtick(x)

auto_escape(x, use_backtick) ==
    IF is_simple(x) THEN x
    ELSE IF use_backtick THEN escape_backtick(x) ELSE escape_angle(x)

\* Whether String.auto_escape emits the warning of EscapedString.
auto_escape_warns(x, use_backtick) ==
    /\ ~is_simple(x)
    /\ IF use_backtick THEN backtick_warns(x) ELSE angle_warns(x)

auto_quote(x, use_backtick) ==
    IF is_simple(x) THEN PyStr(<<DQUOTE>> \o x.v \o <<DQUOTE>>)
    ELSE IF use_backtick THEN escape_backtick(x) ELSE escape_angle(x)


-----------------------------------------------------------------------------
(* Text operations of Python that the formatter relies on *)

\* a + b: a str only when both are; a UserString operand (__add__, __radd__)
\* makes the sum an instance of its class.
concat(a, b) ==
    [t |-> IF a.t = "str" /\ b.t = "str" THEN "str" ELSE "EscapedString",
     v |-> a.v \o b.v]

RECURSIVE JoinChars(_, _)
JoinChars(sep, parts) ==
    IF Len(parts) = 0 THEN << >>
    ELSE IF Len(parts) = 1 THEN parts[1]
    ELSE parts[1] \o sep \o JoinChars(sep, Tail(parts))

\* The least index of a failed outcome in a sequence of outcomes (0: none).
FirstFailure(results) ==
    IF \A i \in 1..Len(results) : results[i].ok THEN 0
    ELSE CHOOSE i \in 1..Len(results) :
            ~results[i].ok /\ \A j \in 1..(i - 1) : results[j].ok

\* sep.join(generator): the generator is exhausted first, so an exception of
\* an item comes first; then every item must be a str (a UserString is not).
str_join(sep, results) ==
    LET f == FirstFailure(results)
    IN  IF f # 0 THEN Err(results[f].err)
        ELSE IF \E i \in 1..Len(results) : results[i].val.t # "str"
             THEN Err("TypeError")
             ELSE Ok(PyStr(JoinChars(sep, [i \in 1..Len(results) |-> results[i].val.v])))

\* Index of the first occurrence of character c in s (0: none).
IndexOf(s, c) ==
    IF \A i \in 1..Len(s) : s[i] # c THEN 0
    ELSE CHOOSE i \in 1..Len(s) : s[i] = c /\ \A j \in 1..(i - 1) : s[j] # c

\* str(x) and repr(x) of the values modelled.
RECURSIVE py_repr(_)
py_repr(x) ==
    CASE x.t \in {"str", "EscapedString"} -> <<"'">> \o x.v \o <<"'">>
      [] x.t \in {"int", "bool"} -> py_str_int(x)
      [] x.t = "float" -> int_str(x.v \div 10) \o <<".">> \o int_str(x.v % 10)
      [] x.t = "NoneType" -> <<"N", "o", "n", "e">>
      [] x.t = "list" ->
            <<"[">> \o JoinChars(<<",", " ">>, [i \in 1..Len(x.v) |-> py_repr(x.v[i])]) \o <<"]">>
      [] x.t = "tuple" ->
            <<"(">> \o JoinChars(<<",", " ">>, [i \in 1..Len(x.v) |-> py_repr(x.v[i])])
                   \o (IF Len(x.v) = 1 THEN <<",">> ELSE << >>) \o <<")">>
      [] x.t = "dict" ->
            <<"{">> \o JoinChars(<<",", " ">>,
                        [i \in 1..Len(x.v) |->
                            py_repr(x.v[i].k) \o <<":", " ">> \o py_repr(x.v[i].val)])
                   \o <<"}">>
      [] OTHER -> <<"o", "b", "j", "e", "c", "t">>

py_str(x) == IF x.t \in {"str", "EscapedString"} THEN x.v ELSE py_repr(x)

-----------------------------------------------------------------------------
(* Entity model: data_model/thing.py.  An object is [cls, table, id]; a     *)
(* Table has no id attribute.                                              *)

NoId == [t |-> "absent", v |-> 0]

RecordIdClasses == {"TextRecordId", "NumericRecordId", "ArrayRecordId", "ObjectRecordId"}

\* isinstance(x, Table): RecordId is a subclass of Table.
is_Table(x) == x.t = "Thing" /\ x.v.cls \in {"Table"} \cup RecordIdClasses

\* isinstance(x, RecordId)
is_RecordId(x) == x.t = "Thing" /\ x.v.cls \in RecordIdClasses

\* The abstract methods a class is left with: RecordId declares __pack_id__
\* abstract, and only TextRecordId and ObjectRecordId override it.
AbstractMethods(cls) ==
    CASE cls = "Thing" -> {"__iter__", "__json__", "__pack__"}
      [] cls \in {"RecordId", "NumericRecordId", "ArrayRecordId"} -> {"__pack_id__"}
      [] OTHER -> {}

\* Table.__init__: the name attribute it stores.
Table_init(table) ==
    IF is_Table(table) THEN table.v.table ELSE auto_escape(table, FALSE)

Table(table) == Ok([cls |-> "Table", table |-> Table_init(table), id |-> NoId])

\* thing.change_table(table): the object with its table name replaced
change_table(self, table) == [self EXCEPT !.table = auto_escape(table, FALSE)]

\* cls(table, id) for a RecordId class: ABCMeta refuses to instantiate a
\* class that still has abstract methods.
RecordId_init(cls, table, id) ==
    IF AbstractMethods(cls) # {} THEN Err("TypeError")
    ELSE Ok([cls |-> cls, table |-> Table_init(table), id |-> id])

TextRecordId(table, id) == RecordId_init("TextRecordId", table, id)
NumericRecordId(table, id) == RecordId_init("NumericRecordId", table, id)
ArrayRecordId(table, id) == RecordId_init("ArrayRecordId", table, id)
ObjectRecordId(table, id) == RecordId_init("ObjectRecordId", table, id)

RecordId_new(table, id) ==
    CASE is_str(id) -> TextRecordId(table, id)
      [] ~is_str(id) /\ is_int(id) -> NumericRecordId(table, id)
      [] id.t \in {"list", "tuple"} -> ArrayRecordId(table, id)
      [] id.t = "dict" -> ObjectRecordId(table, id)
      [] OTHER -> Err("InvalidRecordId")

RecordId_from_str(string, escaped) ==
    LET i == IndexOf(string.v, ":")
    IN  IF i = 0 THEN Err("InvalidRecordIdString")
        ELSE LET table == PyStr(SubSeq(string.v, 1, i - 1))
                 id == SubSeq(string.v, i + 1, Len(string.v))
             IN  RecordId_new(table, IF escaped THEN EscapedString(id) ELSE PyStr(id))

\* Thing.from_str takes the flag escaped and does not pass it on.
Thing_from_str(s, escaped) ==
    IF IndexOf(s.v, ":") # 0 THEN RecordId_from_str(s, FALSE) ELSE Table(s)

\* TextRecordId.__pack_id__ without its test for numeric text.
TextRecordId_pack_id_bare(o) == auto_escape(o.id, FALSE)

TextRecordId_pack_id(o) ==
    IF isnumeric(o.id.v) THEN EscapedString_angle(o.id) ELSE auto_escape(o.id, FALSE)

\* RecordId.__pack_id__, inherited by NumericRecordId and ArrayRecordId.
RecordId_pack_id(o) == PyStr(py_str(o.id))

RECURSIVE pack_record_id(_, _)
RECURSIVE Thing_pack(_)

ObjectRecordId_pack_id(o) ==
    LET item(e) ==
            LET v == pack_record_id(e.val, TRUE)
            IN  IF ~v.ok THEN v
                ELSE Ok(concat(concat(auto_escape(e.k, FALSE), PyStr(<<":">>)), v.val))
        body == str_join(<<",">>, [i \in 1..Len(o.id.v) |-> item(o.id.v[i])])
    IN  IF ~body.ok THEN body
        ELSE Ok(PyStr(<<"{">> \o body.val.v \o <<"}">>))

RecordId_pack(o) ==
    LET id == CASE o.cls = "TextRecordId" -> Ok(TextRecordId_pack_id(o))
                [] o.cls = "ObjectRecordId" -> ObjectRecordId_pack_id(o)
                [] OTHER -> Ok(RecordId_pack_id(o))
    IN  IF ~id.ok THEN id
        ELSE Ok(PyStr(auto_escape(o.table, FALSE).v \o <<":">> \o id.val.v))

Table_pack(o) == Ok(o.table)

Thing_pack(o) == IF o.cls = "Table" THEN Table_pack(o) ELSE RecordId_pack(o)

pack_record_id(value, quote) ==
    CASE is_str(value) ->
            Ok(IF quote THEN auto_quote(value, TRUE) ELSE auto_escape(value, FALSE))
      [] is_int(value) -> Ok(PyStr(py_str_int(value)))
      [] value.t \in {"list", "tuple"} ->
            LET body == str_join(<<",">>,
                            [i \in 1..Len(value.v) |-> pack_record_id(value.v[i], TRUE)])
            IN  IF ~body.ok THEN body
                ELSE Ok(PyStr(<<"[">> \o body.val.v \o <<"]">>))
      [] value.t = "dict" ->
            LET item(e) ==
                    LET v == pack_record_id(e.val, TRUE)
                    IN  IF ~v.ok THEN v
                        ELSE Ok(PyStr(auto_escape(e.k, TRUE).v \o <<":">> \o v.val.v))
                body == str_join(<<",">>, [i \in 1..Len(value.v) |-> item(value.v[i])])
            IN  IF ~body.ok THEN body
                ELSE Ok(PyStr(<<"{">> \o body.val.v \o <<"}">>))
      [] is_RecordId(value) -> Thing_pack(value.v)
      [] OTHER -> Err("NotImplementedError")

\* a == b of two values: texts by their characters (a UserString compares
\* its data), numbers by value (a bool is the int 0 or 1), sequences of one
\* type element by element, mappings by their entries in any order.
RECURSIVE py_eq(_, _)
py_eq(a, b) ==
    LET text == {"str", "EscapedString"}
        num(x) == IF x.t = "bool" THEN (IF x.v THEN 10 ELSE 0)
                  ELSE IF x.t = "int" THEN 10 * x.v ELSE x.v
    IN  CASE a.t \in text /\ b.t \in text -> a.v = b.v
          [] a.t \in {"int", "bool", "float"} /\ b.t \in {"int", "bool", "float"} ->
                num(a) = num(b)
          [] a.t \in {"list", "tuple"} /\ a.t = b.t ->
                /\ Len(a.v) = Len(b.v)
                /\ \A i \in 1..Len(a.v) : py_eq(a.v[i], b.v[i])
          [] a.t = "dict" /\ b.t = "dict" ->
                /\ Len(a.v) = Len(b.v)
                /\ \A i \in 1..Len(a.v) : \E j \in 1..Len(b.v) :
                        py_eq(a.v[i].k, b.v[j].k) /\ py_eq(a.v[i].val, b.v[j].val)
          [] a.t = "NoneType" /\ b.t = "NoneType" -> TRUE
          [] a.t = "Thing" /\ b.t = "Thing" ->
                /\ a.v.cls = b.v.cls
                /\ a.v.table.v = b.v.table.v
                /\ py_eq(a.v.id, b.v.id)
          [] OTHER -> FALSE

\* Table.__eq__
Table_eq(self, other) == Ok(PyBool(self.table.v = other.table.v))

\* RecordId.__eq__: the and reads other.id only when the tables are equal,
\* and a Table has no attribute id.
RecordId_eq(self, other) ==
    IF self.table.v # other.table.v THEN Ok(PyBool(FALSE))
    ELSE IF other.cls = "Table" THEN Err("AttributeError")
    ELSE Ok(PyBool(py_eq(self.id, other.id)))

\* a == b of two objects: when the class of b is a subclass of the class of a
\* and overrides __eq__, Python calls the method of b first.
Thing_eq(a, b) ==
    IF a.cls = "Table" /\ b.cls # "Table" THEN RecordId_eq(b, a)
    ELSE IF a.cls = "Table" THEN Table_eq(a, b)
    ELSE RecordId_eq(a, b)

-----------------------------------------------------------------------------
(* data_model/record_id.py: the RecordId of one argument.  Its objects are  *)
(* [cls, table, id] with no table; the attribute value is the field id.    *)

RecordId1Classes == {"record_id.RecordId", "record_id.TextRecordId",
                     "record_id.NumericRecordId", "record_id.ArrayRecordId",
                     "record_id.ObjectRecordId", "record_id.RawRecordId"}

is_RecordId1(x) == x.t = "Thing" /\ x.v.cls \in RecordId1Classes

RecordId1_init(cls, record_id) ==
    Ok([cls |-> cls, table |-> NoId,
        id |-> IF is_RecordId1(record_id) THEN record_id.v.id ELSE record_id])

RecordId1_new(record_id) ==
    CASE is_str(record_id) /\ ~isnumeric(record_id.v) ->
            RecordId1_init("record_id.TextRecordId", record_id)
      [] (is_str(record_id) /\ isnumeric(record_id.v)) \/ is_int(record_id) ->
            RecordId1_init("record_id.NumericRecordId", record_id)
      [] record_id.t \in {"list", "tuple"} ->
            RecordId1_init("record_id.ArrayRecordId", record_id)
      [] record_id.t = "dict" ->
            RecordId1_init("record_id.ObjectRecordId", record_id)
      [] OTHER -> Err("InvalidRecordIdType")

\* data_model/surql.py is not among the sources; the rendering is the one
\* the tests of record_id.py expect.
RECURSIVE surql_str(_)
surql_str(x) ==
    CASE x.t \in {"str", "EscapedString"} -> <<"'">> \o x.v \o <<"'">>
      [] x.t \in {"list", "tuple"} ->
            <<"[">> \o JoinChars(<<",", " ">>, [i \in 1..Len(x.v) |-> surql_str(x.v[i])]) \o <<"]">>
      [] x.t = "dict" ->
            <<"{", " ">> \o JoinChars(<<",", " ">>,
                        [i \in 1..Len(x.v) |->
                            auto_escape(x.v[i].k, FALSE).v \o <<":", " ">> \o surql_str(x.v[i].val)])
                   \o <<" ", "}">>
      [] OTHER -> py_repr(x)

list_to_surql_str(x) == PyStr(surql_str(x))

dict_to_surql_str(x) == PyStr(surql_str(x))

TextRecordId1_msgpack(o) ==
    IF isnumeric(o.id.v) THEN EscapedString_angle(o.id) ELSE auto_escape(o.id, FALSE)

NumericRecordId1_msgpack(o) == PyStr(py_str(o.id))

ObjectRecordId1_msgpack(o) == dict_to_surql_str(o.id)

ArrayRecordId1_msgpack(o) == list_to_surql_str(o.id)

\* RecordId.__msgpack__ dispatches on the type of the value; the subclasses
\* override it with their own rendering.
RecordId1_msgpack(o) ==
    CASE o.cls = "record_id.TextRecordId" -> Ok(TextRecordId1_msgpack(o))
      [] o.cls = "record_id.NumericRecordId" -> Ok(NumericRecordId1_msgpack(o))
      [] o.cls = "record_id.ArrayRecordId" -> Ok(ArrayRecordId1_msgpack(o))
      [] o.cls = "record_id.ObjectRecordId" -> Ok(ObjectRecordId1_msgpack(o))
      [] o.cls = "record_id.RawRecordId" -> Ok(o.id)
      [] OTHER ->
            CASE is_str(o.id) -> Ok(TextRecordId1_msgpack(o))
              [] is_int(o.id) -> Ok(NumericRecordId1_msgpack(o))
              [] o.id.t \in {"list", "tuple"} -> Ok(ArrayRecordId1_msgpack(o))
              [] o.id.t = "dict" -> Ok(ObjectRecordId1_msgpack(o))
              [] OTHER -> Err("NotImplementedError")

-----------------------------------------------------------------------------
(* Extension scalar types: Duration, DateTime, Decimal, UUID of             *)
(* data_model.py.  A duration is [days, seconds, microseconds], normalised *)
(* as datetime.timedelta keeps it.                                         *)

PyTimedelta(d, sec, us) ==
    [t |-> "timedelta", v |-> [days |-> d, seconds |-> sec, microseconds |-> us]]

PyDuration(d, sec, us) ==
    [t |-> "Duration", v |-> [days |-> d, seconds |-> sec, microseconds |-> us]]

PyUUID(s) == [t |-> "UUID", v |-> s]

PyDecimal(s) == [t |-> "Decimal", v |-> s]

\* A datetime with a timezone: day of January 2024, hour, and the offset of
\* its timezone from UTC in whole hours.
PyDatetime(day, hour, off) ==
    [t |-> "datetime", v |-> [day |-> day, hour |-> hour, off |-> off]]

PyDateTime(day, hour, off) ==
    [t |-> "DateTime", v |-> [day |-> day, hour |-> hour, off |-> off]]

\* Duration.__str__ with the seconds split into minutes and seconds.
Duration_str_minutes(td) ==
    (IF td.v.days # 0 THEN int_str(td.v.days) \o <<"d">> ELSE << >>)
    \o (IF td.v.seconds \div 60 # 0 THEN int_str(td.v.seconds \div 60) \o <<"m">> ELSE << >>)
    \o (IF td.v.seconds % 60 # 0 THEN int_str(td.v.seconds % 60) \o <<"s">> ELSE << >>)
    \o (IF td.v.microseconds # 0 THEN int_str(td.v.microseconds) \o <<"u", "s">> ELSE << >>)

\* Duration.__str__
Duration_str(td) ==
    (IF td.v.days # 0 THEN int_str(td.v.days) \o <<"d">> ELSE << >>)
    \o (IF td.v.seconds # 0 THEN int_str(td.v.seconds) \o <<"s">> ELSE << >>)
    \o (IF td.v.microseconds # 0 THEN int_str(td.v.microseconds) \o <<"u", "s">> ELSE << >>)

\* sep in s, for a separator of one or more characters.
Contains(s, sep) ==
    \E i \in 1..(Len(s) - Len(sep) + 1) : SubSeq(s, i, i + Len(sep) - 1) = sep

\* s.split(sep): every part between the occurrences of sep.
RECURSIVE SplitAll(_, _)
SplitAll(s, sep) ==
    IF ~Contains(s, sep) THEN <<s>>
    ELSE LET i == CHOOSE k \in 1..(Len(s) - Len(sep) + 1) :
                    /\ SubSeq(s, k, k + Len(sep) - 1) = sep
                    /\ \A j \in 1..(k - 1) : SubSeq(s, j, j + Len(sep) - 1) # sep
         IN  <<SubSeq(s, 1, i - 1)>> \o SplitAll(SubSeq(s, i + Len(sep), Len(s)), sep)

DigitVal(c) == CASE c = "0" -> 0 [] c = "1" -> 1 [] c = "2" -> 2 [] c = "3" -> 3
                 [] c = "4" -> 4 [] c = "5" -> 5 [] c = "6" -> 6 [] c = "7" -> 7
                 [] c = "8" -> 8 [] c = "9" -> 9

RECURSIVE DigitsVal(_)
DigitsVal(s) == IF Len(s) = 0 THEN 0
                ELSE 10 * DigitsVal(SubSeq(s, 1, Len(s) - 1)) + DigitVal(s[Len(s)])

\* The texts int() accepts: an optional sign and one or more digits.
is_int_literal(s) ==
    LET body == IF Len(s) > 0 /\ s[1] \in {"-", "+"} THEN Tail(s) ELSE s
    IN  isnumeric(body)

int_of(s) == IF s[1] = "-" THEN 0 - DigitsVal(Tail(s))
             ELSE IF s[1] = "+" THEN DigitsVal(Tail(s))
             ELSE DigitsVal(s)

\* One step of Duration.from_str:
\*     if sep in string: field, string = string.split(sep); field = int(field)
\* The tuple assignment needs exactly two parts.
ParseUnit(st, sep, field) ==
    IF st.err # "none" \/ ~Contains(st.string, sep) THEN st
    ELSE LET parts == SplitAll(st.string, sep)
         IN  IF Len(parts) # 2 \/ ~is_int_literal(parts[1])
             THEN [st EXCEPT !.err = "ValueError"]
             ELSE [st EXCEPT !.string = parts[2], ![field] = int_of(parts[1])]

\* timedelta(weeks, days, hours, minutes, seconds, milliseconds, microseconds)
timedelta_new(weeks, days, hours, minutes, seconds, milliseconds, microseconds) ==
    LET us == milliseconds * 1000 + microseconds
        sec == hours * 3600 + minutes * 60 + seconds + (us \div 1000000)
    IN  PyDuration(weeks * 7 + days + (sec \div 86400), sec % 86400, us % 1000000)

Duration_from_str(string) ==
    LET st0 == [err |-> "none", string |-> string, weeks |-> 0, days |-> 0,
                hours |-> 0, minutes |-> 0, seconds |-> 0, milis |-> 0,
                micros |-> 0, nanos |-> 0]
        st1 == ParseUnit(st0, <<"w">>, "weeks")
        st2 == ParseUnit(st1, <<"d">>, "days")
        st3 == ParseUnit(st2, <<"h">>, "hours")
        st4 == ParseUnit(st3, <<"m">>, "minutes")
        st5 == ParseUnit(st4, <<"s">>, "seconds")
        st6 == ParseUnit(st5, <<"m", "s">>, "milis")
        st7 == IF st6.err = "none" /\ Contains(st6.string, <<"u", "s">>)
               THEN ParseUnit(st6, <<"u", "s">>, "micros")
               ELSE ParseUnit(st6, <<MICRO, "s">>, "micros")
        st8 == ParseUnit(st7, <<"n", "s">>, "nanos")
    IN  IF Contains(string, <<"y">>) THEN Err("NotImplementedError")
        ELSE IF st8.err # "none" THEN Err(st8.err)
        ELSE Ok(timedelta_new(st8.weeks, st8.days, st8.hours, st8.minutes,
                              st8.seconds, st8.milis,
                              st8.micros + (st8.nanos \div 1000)))

\* Duration.from_str warns when it truncates nanoseconds.
Duration_from_str_warns(string) ==
    LET r == Duration_from_str(string)
    IN  r.ok /\ Contains(string, <<"n", "s">>)

TwoDigits(n) == <<DigitOf(n \div 10), DigitOf(n % 10)>>

\* datetime.isoformat() of a datetime of January 2024 on a whole hour.
isoformat(dt) ==
    <<"2", "0", "2", "4", "-", "0", "1", "-">> \o TwoDigits(dt.v.day)
    \o <<"T">> \o TwoDigits(dt.v.hour) \o <<":", "0", "0", ":", "0", "0">>
    \o <<IF dt.v.off < 0 THEN "-" ELSE "+">>
    \o TwoDigits(IF dt.v.off < 0 THEN 0 - dt.v.off ELSE dt.v.off) \o <<":", "0", "0">>

\* datetime.astimezone(timezone.utc)
astimezone_utc(dt) ==
    LET h == dt.v.hour - dt.v.off
    IN  IF h < 0 THEN PyDateTime(dt.v.day - 1, h + 24, 0)
        ELSE IF h > 23 THEN PyDateTime(dt.v.day + 1, h - 24, 0)
        ELSE PyDateTime(dt.v.day, h, 0)

\* DateTime.__str__
DateTime_str(dt) == isoformat(astimezone_utc(dt))

\* DateTime.from_str: datetime.fromisoformat, on the texts isoformat writes.
DateTime_from_str(string) ==
    LET s == string
        wellformed ==
            /\ Len(s) = 25
            /\ SubSeq(s, 1, 8) = <<"2", "0", "2", "4", "-", "0", "1", "-">>
            /\ isnumeric(SubSeq(s, 9, 10))
            /\ s[11] = "T"
            /\ isnumeric(SubSeq(s, 12, 13))
            /\ SubSeq(s, 14, 19) = <<":", "0", "0", ":", "0", "0">>
            /\ s[20] \in {"+", "-"}
            /\ isnumeric(SubSeq(s, 21, 22))
            /\ SubSeq(s, 23, 25) = <<":", "0", "0">>
            /\ DigitsVal(SubSeq(s, 9, 10)) \in 1..31
            /\ DigitsVal(SubSeq(s, 12, 13)) \in 0..23
            /\ DigitsVal(SubSeq(s, 21, 22)) \in 0..23
    IN  IF ~wellformed THEN Err("ValueError")
        ELSE Ok(PyDateTime(DigitsVal(SubSeq(s, 9, 10)), DigitsVal(SubSeq(s, 12, 13)),
                           IF s[20] = "-" THEN 0 - DigitsVal(SubSeq(s, 21, 22))
                           ELSE DigitsVal(SubSeq(s, 21, 22))))

\* str.removesuffix
removesuffix(s, suffix) ==
    IF Len(s) >= Len(suffix) /\ SubSeq(s, Len(s) - Len(suffix) + 1, Len(s)) = suffix
    THEN SubSeq(s, 1, Len(s) - Len(suffix))
    ELSE s

\* The texts decimal.Decimal() accepts, among those over digits, signs and
\* the point: an optional sign, digits, at most one point, one digit at least.
is_decimal_literal(s) ==
    LET body == IF Len(s) > 0 /\ s[1] \in {"-", "+"} THEN Tail(s) ELSE s
    IN  /\ \A i \in 1..Len(body) : body[i] \in AsciiDigits \cup {"."}
        /\ Cardinality({i \in 1..Len(body) : body[i] = "."}) <= 1
        /\ \E i \in 1..Len(body) : body[i] \in AsciiDigits

\* str(Decimal(s)): the text without a plus sign, with a digit before the
\* point and none missing after it.
decimal_str(s) ==
    LET neg == Len(s) > 0 /\ s[1] = "-"
        body == IF Len(s) > 0 /\ s[1] \in {"-", "+"} THEN Tail(s) ELSE s
        lead == IF body[1] = "." THEN <<"0">> \o body ELSE body
        trim == IF lead[Len(lead)] = "." THEN SubSeq(lead, 1, Len(lead) - 1) ELSE lead
    IN  (IF neg THEN <<"-">> ELSE << >>) \o trim

\* Decimal.from_str
Decimal_from_str(string) ==
    LET s == removesuffix(string, <<"d", "e", "c">>)
    IN  IF is_decimal_literal(s) THEN Ok(PyDecimal(decimal_str(s)))
        ELSE Err("InvalidOperation")

\* UUID.__init__ of a str: any text is kept.
UUID_init(value) == Ok(PyUUID(value))

-----------------------------------------------------------------------------
(* serialization/msgpack.py.  An encoded value is [ext, tag, payload]: an   *)
(* ExtType(tag, payload), bare bytes (tag 0), or the object unchanged.     *)

ExtType(code, data) == [ext |-> "ExtType", tag |-> code, payload |-> data]

Bytes(data) == [ext |-> "bytes", tag |-> 0, payload |-> data]

Unchanged == [ext |-> "unchanged", tag |-> 0, payload |-> << >>]

\* thing.__msgpack__(): the method thing.py declares as __pack__ ("Return a
\* msgpack-serializable representation of this object").
Thing_msgpack(o) == Thing_pack(o)

msgpack_encode(x) ==
    CASE x.t = "NoneType" -> Ok(ExtType(1, << >>))
      [] x.t = "UUID" -> Ok(ExtType(2, x.v))
      [] x.t = "Decimal" -> Ok(ExtType(3, x.v))
      [] x.t \in {"timedelta", "Duration"} -> Ok(ExtType(4, Duration_str(x)))
      [] x.t \in {"datetime", "DateTime"} -> Ok(ExtType(5, DateTime_str(x)))
      [] is_Table(x) ->
            LET lit == Thing_msgpack(x.v)
            IN  IF lit.ok THEN Ok(ExtType(6, lit.val.v)) ELSE lit
      [] is_RecordId1(x) ->
            LET lit == RecordId1_msgpack(x.v)
            IN  IF lit.ok THEN Ok(Bytes(lit.val.v)) ELSE lit
      [] OTHER -> Ok(Unchanged)

\* msgpack_decode with a default case that hands the payload back as text.
msgpack_decode_lenient(code, data) ==
    CASE code = 1 -> Ok(PyNone)
      [] code = 2 -> UUID_init(data)
      [] code = 3 -> Decimal_from_str(data)
      [] code = 4 -> Duration_from_str(data)
      [] code = 5 -> DateTime_from_str(data)
      [] code = 6 ->
            LET r == Thing_from_str(PyStr(data), TRUE)
            IN  IF r.ok THEN Ok(ThingValue(r.val)) ELSE r
      [] OTHER -> Ok(PyStr(data))

msgpack_decode(code, data) ==
    CASE code = 1 -> Ok(PyNone)
      [] code = 2 -> UUID_init(data)
      [] code = 3 -> Decimal_from_str(data)
      [] code = 4 -> Duration_from_str(data)
      [] code = 5 -> DateTime_from_str(data)
      [] code = 6 ->
            LET r == Thing_from_str(PyStr(data), TRUE)
            IN  IF r.ok THEN Ok(ThingValue(r.val)) ELSE r
      [] OTHER -> Err("ValueError: Unknown msgpack extension code")

-----------------------------------------------------------------------------
(* Inputs *)

MaxStrLen == 2       \* longest generated id text
MaxTableLen == 2     \* longest generated table name
MaxItems == 2        \* most elements of a generated array or object id

IdAlphabet == {"a", "1", "-", ":", LANGLE, RANGLE}

TableAlphabet == {"t", "-"}

SampleTexts == {<<"f", "o", "o", "-", "b", "a", "r">>,
                <<"f", "o", "o", " ", "b", "a", "r">>,
                <<"1", ".", "0">>,
                <<"0", "4", "2">>,
                <<"1", "2", "3">>,
                <<LANGLE, "a", ":", "b", RANGLE>>,
                <<"t", ":", LANGLE, "a", "-", "b", RANGLE>>,
                <<BACKTICK, "a", ":", "b", BACKTICK>>}

IdTexts == StringsUpTo(IdAlphabet, MaxStrLen) \cup SampleTexts

\* The texts handed to from_str: the id texts and some of the form table:id.
ParseTexts == IdTexts \cup {<<"t", ":", "4", "2">>, <<"t", ":", "1", ".", "0">>,
                            <<"t", ":", "a", "-">>, <<"t", ":", "a", " ", "b">>,
                            <<"t", "-", ":", "a">>}

TableNames == StringsUpTo(TableAlphabet, MaxTableLen)
              \cup {<<"e", "x", "a", "m", "p", "l", "e">>, <<"t", ":">>, <<EACUTE>>}

IntInputs == {-3, 0, 7, 42, 123}

\* The id values of the scalar shapes, supported or not, by the type of
\* their content.
StrIds == {PyStr(s) : s \in IdTexts}

NumberIds == {PyInt(i) : i \in IntInputs} \cup {PyFloat(15), PyNone}

BoolIds == {PyBool(TRUE), PyBool(FALSE)}

\* The values found inside an array or object id: leaves of every shape,
\* then an array, an object and a record id.
LeafSeq ==
    <<PyStr(<<"a">>), PyStr(<<"a", "-", "b">>), PyInt(7), PyBool(TRUE), PyNone>>

ElementSeq ==
    LeafSeq \o
    <<PyList(<<PyStr(<<"a", "-", "b">>)>>),
      PyDict(<<[k |-> PyStr(<<"k", "-", "1">>), val |-> PyStr(<<"a", "-", "b">>)]>>),
      ThingValue(TextRecordId(PyStr(<<"t">>), PyStr(<<"x">>)).val)>>

KeySeq == <<PyStr(<<"k">>), PyStr(<<"k", "-", "1">>), PyStr(<<"f", "o", "o">>)>>

\* The ways to pick at most MaxItems elements, and as many distinct keys.
ElementChoices == UNION {[1..n -> 1..Len(ElementSeq)] : n \in 0..MaxItems}

LeafChoices == UNION {[1..n -> 1..Len(LeafSeq)] : n \in 0..1}

KeyChoices(n) == {ks \in [1..n -> 1..Len(KeySeq)] : \A i, j \in 1..n : i # j => ks[i] # ks[j]}

ListOf(f) == PyList([i \in DOMAIN f |-> ElementSeq[f[i]]])

TupleOf(f) == PyTuple([i \in DOMAIN f |-> ElementSeq[f[i]]])

DictOf(ks, f) == PyDict([i \in DOMAIN f |-> [k |-> KeySeq[ks[i]], val |-> ElementSeq[f[i]]]])

\* Values handed to pack_record_id: each leaf alone, in a list, in a dict, and
\* one level deeper.
PackLeafSeq == <<PyNone, PyFloat(15), PyBool(TRUE), PyInt(7), PyStr(<<"a">>)>>

PackSeq ==
    LET InList(x) == PyList(<<x>>)
        InDict(x) == PyDict(<<[k |-> PyStr(<<"k">>), val |-> x]>>)
    IN  PackLeafSeq
        \o [i \in 1..Len(PackLeafSeq) |-> InList(PackLeafSeq[i])]
        \o [i \in 1..Len(PackLeafSeq) |-> InDict(PackLeafSeq[i])]
        \o [i \in 1..Len(PackLeafSeq) |-> InList(InDict(PackLeafSeq[i]))]
        \o [i \in 1..Len(PackLeafSeq) |-> InDict(InList(PackLeafSeq[i]))]
        \o <<PyList(<<PyStr(<<"a">>), PyNone>>), PyTuple(<<PyInt(7), PyBool(FALSE)>>)>>

\* Texts handed to the escaper: simple ones, ones to delimit, a letter outside
\* ASCII, and ones that are delimited already.
EscapeTexts ==
    {<< >>, <<"a">>, <<"a", "_", "1">>, <<"a", "-">>, <<"a", ":">>, <<EACUTE>>,
     <<LANGLE, "a", "-", RANGLE>>, <<LANGLE, "a", RANGLE>>,
     <<BACKTICK, "a", "-", BACKTICK>>}

\* The escaper methods of String the application calls
Escapers == {"auto_escape", "auto_escape(backtick)", "escape_angle", "escape_backtick"}

\* The text ids of the record ids that are copied or renamed
SubjectIdTexts == {<<"a">>, <<"1">>}

\* The new names of change_table
NewTableNames == {<<"t">>, <<"t", "-">>, <<"t", ":">>, <<EACUTE>>}

CompositeTables == {<<"t", "-">>, <<"e", "x", "a", "m", "p", "l", "e">>}

\* Scalar values handed to the codec, by the type of their content.
TextValues ==
    {PyUUID(s) : s \in {<<"a", "1">>, <<"a", "-", "1">>, << >>}}
    \cup {PyDecimal(s) : s \in {<<"1">>, <<"1", ".", "5">>, <<"-", "1">>}}
    \cup {PyStr(<<"a">>)}

DurationValues ==
    {PyTimedelta(d, sec, us) : d \in {0, 1}, sec \in {0, 90}, us \in {0, 5}}
    \cup {PyDuration(d, sec, us) : d \in {-1, 0, 2}, sec \in {0, 90}, us \in {0, 5}}

DatetimeValues ==
    {PyDatetime(2, h, off) : h \in {0, 12, 23}, off \in {-1, 0, 1}}
    \cup {PyDateTime(3, h, off) : h \in {0, 23}, off \in {0, 1}}

OtherValues == {PyNone, PyInt(7)}

\* Payload texts a peer may send: ids, and the texts of the scalar kinds.
PayloadTexts ==
    IdTexts
    \cup {<<"9", "0", "s">>, <<"1", "d">>, <<"1", "d", "9", "0", "s">>, <<"5", "u", "s">>,
          <<"1", "w">>, <<"2", "h">>, <<"3", "m">>, <<"5", "m", "s">>, <<"7", "n", "s">>,
          <<"1", "y">>, <<"s">>, <<"1", "s", "2", "s">>,
          <<"1", "w", "2", "d", "3", "h", "4", "m", "5", "s">>, <<"1", "m", "3", "0", "s">>,
          <<"5", "s", "6", "m", "s">>, <<"5", MICRO, "s">>,
          <<"7", "0", "0", "0", "n", "s">>, <<"2", "d", "5", "u", "s">>}
    \cup {<<"1", ".", "5">>, <<"1", ".", "5", "d", "e", "c">>, <<"d", "e", "c">>,
          <<"1", ".", "5", ".", "1">>}
    \cup {isoformat(PyDateTime(2, 12, 1)), isoformat(PyDateTime(31, 23, -1)),
          isoformat(PyDateTime(32, 0, 0))}

Codes == 0..8

-----------------------------------------------------------------------------
(* The state machine.  obj is the outcome of the last construction, wire    *)
(* that of encoding obj, back that of decoding wire; arg holds the         *)
(* arguments of the call that op names.  The functions keep no state, so   *)
(* a behaviour is one call and the encoding and decoding of its result.    *)

Pending == [ok |-> FALSE, val |-> PyNone, err |-> "pending"]

Arg(table, id, code, data) == [table |-> table, id |-> id, code |-> code, data |-> data]

\* A constructed object as a value.
AsValue(r) == IF r.ok THEN Ok(ThingValue(r.val)) ELSE r

\* No operation called yet.
NoCall == [n |-> 0, method |-> "none", name |-> "", thing |-> PyNone, response |-> "unsent",
           steps |-> << >>, raised |-> "none", value |-> "None"]

\* No operation on objects yet.
NoOperation == [n |-> 0, op |-> "none", a |-> 0, b |-> 0, ab |-> "none", ba |-> "none"]

Init ==
    /\ heap = << >>
    /\ refs = << >>
    /\ last = NoOperation
    /\ message_id_counter = 0
    /\ variables = {}
    /\ sent = << >>
    /\ received = 0
    /\ call = NoCall
    /\ op = "start"
    /\ arg = Arg(NoId, NoId, 0, << >>)
    /\ obj = Pending
    /\ wire = Pending
    /\ back = Pending
    /\ warned = FALSE
    /\ twice = Pending

\* Table(name)
CallTable ==
    \E n \in TableNames :
        /\ op = "start"
        /\ op' = "Table"
        /\ arg' = Arg(PyStr(n), NoId, 0, << >>)
        /\ obj' = AsValue(Table(PyStr(n)))
        /\ wire' = Pending
        /\ back' = Pending
        /\ warned' = FALSE
        /\ twice' = Pending
        /\ UNCHANGED <<cvars, ovars>>

\* RecordId.new(table, id) of thing.py
RecordIdNew(n, id) ==
    /\ op = "start"
    /\ op' = "RecordId.new"
    /\ arg' = Arg(PyStr(n), id, 0, << >>)
    /\ obj' = AsValue(RecordId_new(PyStr(n), id))
    /\ wire' = Pending
    /\ back' = Pending
    /\ warned' = FALSE
    /\ twice' = Pending
    /\ UNCHANGED <<cvars, ovars>>

\* ... with an id of a scalar shape
CallRecordIdNew ==
    \E n \in TableNames :
        \/ \E id \in StrIds : RecordIdNew(n, id)
        \/ \E id \in NumberIds : RecordIdNew(n, id)
        \/ \E id \in BoolIds : RecordIdNew(n, id)

\* ... with an array or an object
CallRecordIdNewComposite ==
    \E n \in CompositeTables :
        \/ \E f \in ElementChoices : RecordIdNew(n, ListOf(f))
        \/ \E f \in LeafChoices : RecordIdNew(n, TupleOf(f))
        \/ \E f \in ElementChoices : \E ks \in KeyChoices(Len(f)) :
                RecordIdNew(n, DictOf(ks, f))

\* A Table or RecordId that has been constructed and not yet encoded
Subject ==
    /\ op \in {"Table", "RecordId.new"}
    /\ obj.ok
    /\ wire.err = "pending"
    /\ arg.id.t = "absent" \/ (arg.id.t = "str" /\ arg.id.v \in SubjectIdTexts)

\* Table(thing) for an existing Table or RecordId
CallTableOfThing ==
    /\ Subject
    /\ op' = "Table(thing)"
    /\ obj' = AsValue(Table(obj.val))
    /\ wire' = Pending
    /\ back' = Pending
    /\ UNCHANGED <<arg, warned, twice, cvars, ovars>>

\* thing.change_table(name)
CallChangeTable ==
    \E n \in NewTableNames :
        /\ Subject
        /\ op' = "change_table"
        /\ arg' = [arg EXCEPT !.data = n]
        /\ obj' = Ok(ThingValue(change_table(obj.val.v, PyStr(n))))
        /\ wire' = Pending
        /\ back' = Pending
        /\ warned' = FALSE
        /\ twice' = Pending
        /\ UNCHANGED <<cvars, ovars>>

\* pack_record_id(value, quote)
CallPackRecordId ==
    \E i \in 1..Len(PackSeq), quote \in BOOLEAN :
        /\ op = "start"
        /\ op' = (IF quote THEN "pack_record_id(quote)" ELSE "pack_record_id")
        /\ arg' = Arg(NoId, PackSeq[i], 0, << >>)
        /\ obj' = pack_record_id(PackSeq[i], quote)
        /\ wire' = Pending
        /\ back' = Pending
        /\ warned' = FALSE
        /\ twice' = Pending
        /\ UNCHANGED <<cvars, ovars>>

\* String.<method>(x)
EscapeCall(method, x) ==
    CASE method = "auto_escape" -> auto_escape(x, FALSE)
      [] method = "auto_escape(backtick)" -> auto_escape(x, TRUE)
      [] method = "escape_angle" -> escape_angle(x)
      [] method = "escape_backtick" -> escape_backtick(x)

EscapeWarns(method, x) ==
    CASE method = "auto_escape" -> auto_escape_warns(x, FALSE)
      [] method = "auto_escape(backtick)" -> auto_escape_warns(x, TRUE)
      [] method = "escape_angle" -> angle_warns(x)
      [] method = "escape_backtick" -> backtick_warns(x)

\* String.auto_escape(s), String.escape_angle(s), ... on a str
CallEscape ==
    \E method \in Escapers, s \in EscapeTexts :
        /\ op = "start"
        /\ op' = method
        /\ arg' = Arg(NoId, NoId, 0, s)
        /\ obj' = Ok(EscapeCall(method, PyStr(s)))
        /\ warned' = EscapeWarns(method, PyStr(s))
        /\ twice' = Pending
        /\ UNCHANGED <<cvars, ovars>>
        /\ wire' = Pending
        /\ back' = Pending

\* The same method again, on the value the first call returned
CallEscapeAgain ==
    /\ op \in Escapers
    /\ obj.ok
    /\ twice.err = "pending"
    /\ twice' = Ok(EscapeCall(op, obj.val))
    /\ UNCHANGED <<cvars, ovars>>
    /\ warned' = (warned \/ EscapeWarns(op, obj.val))
    /\ UNCHANGED <<op, arg, obj, wire, back>>

\* RecordId.new(record_id) of record_id.py
RecordId1New(id) ==
    /\ op = "start"
    /\ op' = "record_id.RecordId.new"
    /\ arg' = Arg(NoId, id, 0, << >>)
    /\ obj' = AsValue(RecordId1_new(id))
    /\ wire' = Pending
    /\ back' = Pending
    /\ warned' = FALSE
    /\ twice' = Pending
    /\ UNCHANGED <<cvars, ovars>>

CallRecordId1New ==
    \/ \E id \in StrIds : RecordId1New(id)
    \/ \E id \in NumberIds : RecordId1New(id)
    \/ \E id \in BoolIds : RecordId1New(id)
    \/ \E f \in ElementChoices : RecordId1New(ListOf(f))
    \/ \E f \in LeafChoices : RecordId1New(TupleOf(f))
    \/ \E f \in ElementChoices : \E ks \in KeyChoices(Len(f)) : RecordId1New(DictOf(ks, f))

\* RecordId(record_id) of record_id.py
RecordId1(id) ==
    /\ op = "start"
    /\ op' = "record_id.RecordId"
    /\ arg' = Arg(NoId, id, 0, << >>)
    /\ obj' = AsValue(RecordId1_init("record_id.RecordId", id))
    /\ wire' = Pending
    /\ back' = Pending
    /\ warned' = FALSE
    /\ twice' = Pending
    /\ UNCHANGED <<cvars, ovars>>

CallRecordId1 ==
    \/ \E id \in StrIds : RecordId1(id)
    \/ \E id \in NumberIds : RecordId1(id)
    \/ \E id \in BoolIds : RecordId1(id)
    \/ \E f \in LeafChoices : RecordId1(ListOf(f))
    \/ \E f \in ElementChoices : \E ks \in KeyChoices(Len(f)) : RecordId1(DictOf(ks, f))

\* RecordId.from_str(s)
CallRecordIdFromStr ==
    \E s \in ParseTexts :
        /\ op = "start"
        /\ op' = "RecordId.from_str"
        /\ arg' = Arg(NoId, NoId, 0, s)
        /\ obj' = AsValue(RecordId_from_str(PyStr(s), FALSE))
        /\ wire' = Pending
        /\ back' = Pending
        /\ warned' = FALSE
        /\ twice' = Pending
        /\ UNCHANGED <<cvars, ovars>>

\* Thing.from_str(s)
CallThingFromStr ==
    \E s \in ParseTexts :
        /\ op = "start"
        /\ op' = "Thing.from_str"
        /\ arg' = Arg(NoId, NoId, 0, s)
        /\ obj' = AsValue(Thing_from_str(PyStr(s), FALSE))
        /\ wire' = Pending
        /\ back' = Pending
        /\ warned' = FALSE
        /\ twice' = Pending
        /\ UNCHANGED <<cvars, ovars>>

\* A scalar value of the application
Value(x) ==
    /\ op = "start"
    /\ op' = "value"
    /\ arg' = Arg(NoId, NoId, 0, << >>)
    /\ obj' = Ok(x)
    /\ wire' = Pending
    /\ back' = Pending
    /\ warned' = FALSE
    /\ twice' = Pending
    /\ UNCHANGED <<cvars, ovars>>

CallValue ==
    \/ \E x \in TextValues : Value(x)
    \/ \E x \in DurationValues : Value(x)
    \/ \E x \in DatetimeValues : Value(x)
    \/ \E x \in OtherValues : Value(x)

\* msgpack_encode(obj)
Encode ==
    /\ obj.ok
    /\ wire.err = "pending"
    /\ wire' = msgpack_encode(obj.val)
    /\ back' = Pending
    /\ UNCHANGED <<op, arg, obj, warned, twice, cvars, ovars>>

\* msgpack_decode of the extension value just encoded
Decode ==
    /\ wire.ok
    /\ wire.val.ext = "ExtType"
    /\ back.err = "pending"
    /\ back' = msgpack_decode(wire.val.tag, wire.val.payload)
    /\ UNCHANGED <<op, arg, obj, wire, warned, twice, cvars, ovars>>

\* msgpack_decode(code, data) of an extension value received from the peer
DecodeRaw ==
    \E code \in Codes, data \in PayloadTexts :
        /\ op = "start"
        /\ op' = "msgpack_decode"
        /\ arg' = Arg(NoId, NoId, code, data)
        /\ obj' = Pending
        /\ wire' = Ok(ExtType(code, data))
        /\ back' = msgpack_decode(code, data)
        /\ warned' = FALSE
        /\ twice' = Pending
        /\ UNCHANGED <<cvars, ovars>>

Next ==
    \/ CallTable
    \/ CallRecordIdNew
    \/ CallRecordIdNewComposite
    \/ CallTableOfThing
    \/ CallChangeTable
    \/ CallPackRecordId
    \/ CallEscape
    \/ CallEscapeAgain
    \/ CallRecordId1New
    \/ CallRecordId1
    \/ CallRecordIdFromStr
    \/ CallThingFromStr
    \/ CallValue
    \/ Encode
    \/ Decode
    \/ DecodeRaw

Spec == Init /\ [][Next]_vars

-----------------------------------------------------------------------------
(* The client: SurrealDBWebsocketClient of client/websocket/surrealdb.py.   *)
(* An operation is one action: the client is synchronous, and the response  *)
(* the transport hands to _recv is an input of the operation.               *)

\* The number of operations called on one client.
MaxCalls == 2

\* Variable names of let and unset.
Names == {"x", "y"}

\* What the transport returns for a request: a response with an error member,
\* or one without whose result is null or absent, a dict, or a list.
Responses == {"error", "null", "dict", "list"}

\* How each operation of one request reads its response.
Receiver ==
    [use |-> "_recv", let |-> "_recv", unset |-> "_recv", query |-> "recv_query",
     select |-> "recv", create |-> "recv_one", insert |-> "recv",
     insert_relation |-> "recv", update |-> "recv", upsert |-> "recv",
     relate |-> "recv", merge |-> "recv", patch |-> "recv", delete |-> "recv"]

\* What each operation does with its thing argument before it sends: nothing,
\* Thing.new(thing), or Thing.new of each element when thing is a list.
ThingMode ==
    [use |-> "none", let |-> "none", unset |-> "none", query |-> "none",
     select |-> "list", create |-> "single", insert |-> "none",
     insert_relation |-> "none", update |-> "list", upsert |-> "list",
     relate |-> "list", merge |-> "list", patch |-> "single", delete |-> "single"]

\* The thing arguments: a table name, a record id text, a Table, a RecordId,
\* a list of record id texts, a list of Tables, a list of RecordIds, a list of
\* table names, an int, and a list with an int.
ThingArgSeq ==
    LET t == Table(PyStr(<<"t">>)).val
        u == Table(PyStr(<<"u", "-">>)).val
        r == TextRecordId(PyStr(<<"t">>), PyStr(<<"x">>)).val
    IN  <<PyStr(<<"t">>), PyStr(<<"t", ":", "x">>), ThingValue(t), ThingValue(r),
          PyList(<<PyStr(<<"t", ":", "x">>), PyStr(<<"t", ":", "a">>)>>),
          PyList(<<ThingValue(t), ThingValue(u)>>),
          PyList(<<ThingValue(r)>>),
          PyList(<<PyStr(<<"t">>)>>),
          PyInt(7),
          PyList(<<PyStr(<<"t", ":", "x">>), PyInt(7)>>)>>

\* Thing.new(obj)
Thing_new(x) ==
    IF x.t = "Thing"
    THEN IF x.v.cls = "Table" THEN Table(x.v.table)
         ELSE RecordId_init(x.v.cls, x.v.table, x.v.id)
    ELSE IF is_str(x) THEN Thing_from_str(x, FALSE)
    ELSE Err("CannotConvertIntoThing")

\* The exception of the conversion of the thing argument, or "none".
Convert(mode, thing) ==
    CASE mode = "none" -> "none"
      [] mode = "list" /\ thing.t = "list" ->
            IF \A i \in 1..Len(thing.v) : Thing_new(thing.v[i]).ok THEN "none"
            ELSE LET i == CHOOSE i \in 1..Len(thing.v) :
                              /\ ~Thing_new(thing.v[i]).ok
                              /\ \A j \in 1..(i - 1) : Thing_new(thing.v[j]).ok
                 IN  Thing_new(thing.v[i]).err
      [] OTHER -> IF Thing_new(thing).ok THEN "none" ELSE Thing_new(thing).err

\* next_message_id with a counter that stops at 1.
next_message_id_reuse(counter) == IF counter < 1 THEN counter + 1 ELSE counter

\* next_message_id: the counter after the increment, which is the id returned.
next_message_id(counter) == counter + 1

\* send(method, params)
send(method) ==
    /\ message_id_counter' = next_message_id(message_id_counter)
    /\ sent' = Append(sent, [id |-> next_message_id(message_id_counter), method |-> method])

\* _recv, recv, recv_one and recv_query on a response: the exception raised
\* or "none", and the shape of the value returned.
Receive(receiver, response) ==
    CASE response = "error" -> [raised |-> "SurrealDBError", value |-> "None"]
      [] response # "error" /\ receiver = "_recv" -> [raised |-> "none", value |-> "None"]
      [] receiver # "_recv" /\ response = "null" ->
            [raised |-> "InvalidResponseError", value |-> "None"]
      [] receiver = "recv_one" /\ response = "list" ->
            [raised |-> "InvalidResponseError", value |-> "None"]
      [] receiver = "recv_query" /\ response = "dict" ->
            [raised |-> "InvalidResponseError", value |-> "None"]
      [] OTHER -> [raised |-> "none", value |-> response]

\* An operation that converts, sends and never reads the response.
Request_no_recv(method, name, thing, response) ==
    IF Convert(ThingMode[method], thing) # "none"
    THEN /\ call' = [n |-> call.n + 1, method |-> method, name |-> name, thing |-> thing,
                     response |-> "unsent", steps |-> << >>,
                     raised |-> Convert(ThingMode[method], thing), value |-> "None"]
         /\ UNCHANGED <<message_id_counter, sent, received>>
    ELSE /\ send(method)
         /\ received' = received
         /\ call' = [n |-> call.n + 1, method |-> method, name |-> name, thing |-> thing,
                     response |-> response, steps |-> <<"send">>,
                     raised |-> "none", value |-> "None"]

\* The body shared by the operations of one request: convert the thing
\* argument, send, then read the response.
Request(method, name, thing, response) ==
    IF Convert(ThingMode[method], thing) # "none"
    THEN /\ call' = [n |-> call.n + 1, method |-> method, name |-> name, thing |-> thing,
                     response |-> "unsent", steps |-> << >>,
                     raised |-> Convert(ThingMode[method], thing), value |-> "None"]
         /\ UNCHANGED <<message_id_counter, sent, received>>
    ELSE /\ send(method)
         /\ received' = received + 1
         /\ call' = [n |-> call.n + 1, method |-> method, name |-> name, thing |-> thing,
                     response |-> response, steps |-> <<"send", "recv">>,
                     raised |-> Receive(Receiver[method], response).raised,
                     value |-> Receive(Receiver[method], response).value]

\* use(ns, db)
CallUse ==
    \E response \in Responses :
        /\ call.n < MaxCalls
        /\ Request("use", "", PyNone, response)
        /\ UNCHANGED <<variables, dvars, ovars>>

\* let that adds the name whatever the response.
CallLet_eager ==
    \E name \in Names, response \in Responses :
        /\ call.n < MaxCalls
        /\ Request("let", name, PyNone, response)
        /\ variables' = variables \cup {name}
        /\ UNCHANGED <<dvars, ovars>>

\* let(name, value)
CallLet ==
    \E name \in Names, response \in Responses :
        /\ call.n < MaxCalls
        /\ Request("let", name, PyNone, response)
        /\ variables' = IF response = "error" THEN variables ELSE variables \cup {name}
        /\ UNCHANGED <<dvars, ovars>>

\* unset(name): set.remove raises KeyError for a name that is not defined.
CallUnset ==
    \E name \in Names, response \in Responses :
        /\ call.n < MaxCalls
        /\ send("unset")
        /\ received' = received + 1
        /\ call' = [n |-> call.n + 1, method |-> "unset", name |-> name, thing |-> PyNone,
                    response |-> response, steps |-> <<"send", "recv">>,
                    raised |-> IF response = "error" THEN "SurrealDBError"
                               ELSE IF name \in variables THEN "none" ELSE "KeyError",
                    value |-> "None"]
        /\ variables' = IF response = "error" THEN variables ELSE variables \ {name}
        /\ UNCHANGED <<dvars, ovars>>

\* unset_all(): the loop calls unset(variable), which removes the variable,
\* and then removes it a second time, which raises KeyError.
CallUnsetAll ==
    /\ call.n < MaxCalls
    /\ \/ /\ variables = {}
          /\ call' = [n |-> call.n + 1, method |-> "unset_all", name |-> "", thing |-> PyNone,
                      response |-> "unsent", steps |-> << >>, raised |-> "none",
                      value |-> "None"]
          /\ UNCHANGED <<message_id_counter, sent, received, variables>>
       \/ \E variable \in variables, response \in Responses :
            /\ send("unset")
            /\ received' = received + 1
            /\ call' = [n |-> call.n + 1, method |-> "unset_all", name |-> variable,
                        thing |-> PyNone, response |-> response,
                        steps |-> <<"send", "recv">>,
                        raised |-> IF response = "error" THEN "SurrealDBError" ELSE "KeyError",
                        value |-> "None"]
            /\ variables' = IF response = "error" THEN variables ELSE variables \ {variable}
    /\ UNCHANGED <<dvars, ovars>>

\* select(thing)
CallSelect ==
    \E i \in 1..Len(ThingArgSeq), response \in Responses :
        /\ call.n < MaxCalls
        /\ Request("select", "", ThingArgSeq[i], response)
        /\ UNCHANGED <<variables, dvars, ovars>>

\* query, create, insert, insert_relation, update, upsert, relate, merge,
\* patch, delete
CallOperation ==
    \E method \in (DOMAIN Receiver) \ {"use", "let", "unset", "select"} :
        \E i \in 1..Len(ThingArgSeq), response \in Responses :
            /\ call.n < MaxCalls
            /\ ThingMode[method] = "none" => i = 1
            /\ Request(method, "", ThingArgSeq[i], response)
            /\ UNCHANGED <<variables, dvars, ovars>>

ClientNext ==
    \/ CallUse
    \/ CallLet
    \/ CallUnset
    \/ CallUnsetAll
    \/ CallSelect
    \/ CallOperation

ClientSpec == Init /\ [][ClientNext]_vars

-----------------------------------------------------------------------------
(* Several objects at once: the Table and RecordId objects of thing.py as   *)
(* Python objects with an identity.  heap[i] is the object i with its      *)
(* attributes, refs the references the application holds; an assignment    *)
(* to an attribute changes the one object it is made on.                   *)

\* The object the reference k stands for.
Deref(k) == heap[refs[k].obj]

\* The number of operations on the objects.
MaxSteps == 3

\* Table names and the id the objects are made of.
ObjectTables == {<<"t">>, <<"u", "-">>}
ObjectId == <<"x">>

\* Names given to change_table.
ChangedTables == {<<"w">>, <<"t", "-">>}

\* A constructor call allocates a new object and hands back a reference to it.
Allocate(h, o) == [heap |-> Append(h, o), ref |-> Len(h) + 1]

\* An aliasing constructor: the result is the argument object itself.
Table_of_alias(h, i) == [heap |-> h, ref |-> i]

\* Table(thing) for the object i: a new Table whose name attribute is bound
\* to the value of thing.table.
Table_of(h, i) == Allocate(h, Table(ThingValue(h[i])).val)

\* The outcome of an == as text.
EqOutcome(r) == IF ~r.ok THEN r.err ELSE IF r.val.v THEN "True" ELSE "False"

\* Table(name) and RecordId.new(name, "x")
ObjectNew ==
    \E n \in ObjectTables : \E withId \in BOOLEAN :
        LET made == IF withId THEN RecordId_new(PyStr(n), PyStr(ObjectId))
                    ELSE Table(PyStr(n))
            a == Allocate(heap, made.val)
        IN  /\ last.n < MaxSteps
            /\ heap' = a.heap
            /\ refs' = Append(refs, [obj |-> a.ref, from |-> 0])
            /\ last' = [NoOperation EXCEPT !.n = last.n + 1, !.op = "new",
                                           !.a = Len(refs) + 1]
            /\ UNCHANGED <<dvars, cvars>>

\* Table(refs[k])
ObjectTableOf ==
    \E k \in 1..Len(refs) :
        LET a == Table_of(heap, refs[k].obj)
        IN  /\ last.n < MaxSteps
            /\ heap' = a.heap
            /\ refs' = Append(refs, [obj |-> a.ref, from |-> k])
            /\ last' = [NoOperation EXCEPT !.n = last.n + 1, !.op = "Table(thing)",
                                           !.a = k, !.b = Len(refs) + 1]
            /\ UNCHANGED <<dvars, cvars>>

\* refs[k].change_table(name)
ObjectChangeTable ==
    \E k \in 1..Len(refs) : \E n \in ChangedTables :
        /\ last.n < MaxSteps
        /\ heap' = [heap EXCEPT ![refs[k].obj] = change_table(Deref(k), PyStr(n))]
        /\ last' = [NoOperation EXCEPT !.n = last.n + 1, !.op = "change_table",
                                       !.a = k]
        /\ UNCHANGED <<refs, dvars, cvars>>

\* refs[i] == refs[j] and refs[j] == refs[i]
ObjectEq ==
    \E i \in 1..Len(refs) : \E j \in 1..Len(refs) :
        /\ last.n < MaxSteps
        /\ last' = [n |-> last.n + 1, op |-> "==", a |-> i, b |-> j,
                    ab |-> EqOutcome(Thing_eq(Deref(i), Deref(j))),
                    ba |-> EqOutcome(Thing_eq(Deref(j), Deref(i)))]
        /\ UNCHANGED <<heap, refs, dvars, cvars>>

ObjectNext ==
    \/ ObjectNew
    \/ ObjectTableOf
    \/ ObjectChangeTable
    \/ ObjectEq

ObjectSpec == Init /\ [][ObjectNext]_vars

-----------------------------------------------------------------------------
(* The terms of the properties.  An encoded state is one in which          *)
(* msgpack_encode has returned or raised, a decoded state one in which    *)
(* msgpack_decode has.                                                     *)

Encoded == wire.err # "pending"

Decoded == back.err # "pending"

\* The kind of record id a class stands for.
KindOf(cls) ==
    CASE cls \in {"TextRecordId", "record_id.TextRecordId"} -> "Text"
      [] cls \in {"NumericRecordId", "record_id.NumericRecordId"} -> "Numeric"
      [] cls \in {"ArrayRecordId", "record_id.ArrayRecordId"} -> "Array"
      [] cls \in {"ObjectRecordId", "record_id.ObjectRecordId"} -> "Object"
      [] OTHER -> "none"

\* Simple text: ASCII letters, digits and the underscore only.
SimpleText(s) == \A i \in 1..Len(s) : s[i] \in AsciiLetters \cup AsciiDigits \cup {"_"}

\* Text as an identifier: bare when simple, in one angle pair otherwise.
Escaped(s) == IF SimpleText(s) THEN s ELSE <<LANGLE>> \o s \o <<RANGLE>>

DigitOnly(x) == x.t = "str" /\ Len(x.v) > 0 /\ \A i \in 1..Len(x.v) : x.v[i] \in AsciiDigits

\* The call was RecordId.new(table, id) with two arguments.
IsNew == op = "RecordId.new"

\* The call was RecordId.new(id) with one argument.
IsNew1 == op = "record_id.RecordId.new"

\* C1: RecordId.new succeeds on every str, int, list, tuple and dict and
\* returns the kind of the table of kinds (Text or Numeric for a str, Numeric
\* for an int, Array for a list or a tuple, Object for a dict); on a value
\* of any other shape, a float, a bool or None, it fails with the
\* invalid-record-id error.
C1_KindInferenceTotal ==
    (IsNew \/ IsNew1) =>
        CASE arg.id.t = "str" ->
                obj.ok /\ KindOf(obj.val.v.cls) \in {"Text", "Numeric"}
          [] arg.id.t = "int" ->
                obj.ok /\ KindOf(obj.val.v.cls) = "Numeric"
          [] arg.id.t \in {"list", "tuple"} ->
                obj.ok /\ KindOf(obj.val.v.cls) = "Array"
          [] arg.id.t = "dict" ->
                obj.ok /\ KindOf(obj.val.v.cls) = "Object"
          [] OTHER ->
                ~obj.ok /\ obj.err \in {"InvalidRecordId", "InvalidRecordIdType"}

\* C2: the wire literal of a record id of table t is escaped(t), a colon and
\* the formatted id: the decimal digits of an integer id, and a non-numeric
\* text id bare when it is simple and in one angle pair otherwise.
C2_RecordIdLiteral ==
    (IsNew /\ (arg.id.t = "int" \/ (arg.id.t = "str" /\ ~DigitOnly(arg.id)))) =>
        /\ obj.ok
        /\ Encoded =>
            /\ wire.ok
            /\ wire.val.tag = 6
            /\ wire.val.payload =
                    Escaped(arg.table.v) \o <<":">>
                    \o (IF arg.id.t = "int" THEN int_str(arg.id.v) ELSE Escaped(arg.id.v))

\* The table part of a literal: the name bare or in one angle pair.
TablePart(raw) == {raw, <<LANGLE>> \o raw \o <<RANGLE>>}

\* C3: a text id of digits only is written in angle brackets: the literal of
\* RecordId.new(t, d) is the table part, a colon and <d>, and that of
\* RecordId(d) is <d>; neither is the literal of the integer id int(d).
C3_DigitTextWrapped ==
    /\ (IsNew /\ DigitOnly(arg.id)) =>
            /\ obj.ok
            /\ Encoded =>
                /\ wire.ok
                /\ \E p \in TablePart(arg.table.v) :
                        wire.val.payload = p \o <<":", LANGLE>> \o arg.id.v \o <<RANGLE>>
                /\ \A p \in TablePart(arg.table.v) :
                        wire.val.payload # p \o <<":">> \o int_str(DigitsVal(arg.id.v))
    /\ (op = "record_id.RecordId" /\ DigitOnly(arg.id)) =>
            /\ obj.ok
            /\ Encoded =>
                /\ wire.ok
                /\ wire.val.payload = <<LANGLE>> \o arg.id.v \o <<RANGLE>>
                /\ wire.val.payload # int_str(DigitsVal(arg.id.v))

\* A digit-only text id with a leading zero, under a table name that needs
\* delimiters, has been encoded.
C3_Witness ==
    /\ IsNew
    /\ DigitOnly(arg.id)
    /\ arg.id.v = <<"0", "4", "2">>
    /\ ~SimpleText(arg.table.v)
    /\ Encoded
    /\ wire.ok

\* C4: RecordId.new gives a digit-only string the Numeric kind, and the id
\* part of its literal is the string itself without delimiters.
C4_DigitStringNumeric ==
    ((IsNew \/ IsNew1) /\ DigitOnly(arg.id)) =>
        /\ obj.ok
        /\ KindOf(obj.val.v.cls) = "Numeric"
        /\ Encoded =>
            /\ wire.ok
            /\ wire.val.payload =
                    (IF IsNew THEN Escaped(arg.table.v) \o <<":">> ELSE << >>) \o arg.id.v

\* A value the literal formatter is to render: text, integers, and
\* sequences and mappings of these with text keys.
RECURSIVE Supported(_)
Supported(x) ==
    CASE x.t \in {"str", "int"} -> TRUE
      [] x.t \in {"list", "tuple"} -> \A i \in 1..Len(x.v) : Supported(x.v[i])
      [] x.t = "dict" ->
            \A i \in 1..Len(x.v) : x.v[i].k.t = "str" /\ Supported(x.v[i].val)
      [] OTHER -> FALSE

\* A leaf string inside a composite: in double quotes when simple, in the
\* delimiters of nested text (backticks) otherwise.
Quoted(s) == IF SimpleText(s) THEN <<DQUOTE>> \o s \o <<DQUOTE>>
             ELSE <<BACKTICK>> \o s \o <<BACKTICK>>

\* A key inside a nested mapping.
NestedKey(s) == IF SimpleText(s) THEN s ELSE <<BACKTICK>> \o s \o <<BACKTICK>>

\* format(value, quote_leaf_strings = true)
RECURSIVE Formatted(_)
Formatted(x) ==
    CASE x.t = "str" -> Quoted(x.v)
      [] x.t = "int" -> int_str(x.v)
      [] x.t \in {"list", "tuple"} ->
            <<"[">> \o JoinChars(<<",">>, [i \in 1..Len(x.v) |-> Formatted(x.v[i])]) \o <<"]">>
      [] x.t = "dict" ->
            <<"{">> \o JoinChars(<<",">>,
                        [i \in 1..Len(x.v) |->
                            NestedKey(x.v[i].k.v) \o <<":">> \o Formatted(x.v[i].val)])
                   \o <<"}">>

\* C5: the wire literal of RecordId.new(t, m) for a mapping m is escaped(t),
\* ':{', one key:value item for each entry of m in insertion order, joined by
\* commas, and '}'; each key is escaped and each value formatted recursively
\* with leaf strings quoted.
C5_ObjectLiteral ==
    (IsNew /\ arg.id.t = "dict" /\ Supported(arg.id)) =>
        /\ obj.ok
        /\ KindOf(obj.val.v.cls) = "Object"
        /\ Encoded =>
            /\ wire.ok
            /\ wire.val.payload =
                    Escaped(arg.table.v) \o <<":", "{">>
                    \o JoinChars(<<",">>,
                            [i \in 1..Len(arg.id.v) |->
                                Escaped(arg.id.v[i].k.v) \o <<":">>
                                \o Formatted(arg.id.v[i].val)])
                    \o <<"}">>

\* C6: the wire literal of RecordId.new(t, xs) for a list or tuple xs is
\* escaped(t), ':[', the elements of xs in order, each formatted recursively
\* with leaf strings quoted, joined by commas, and ']'.
C6_ArrayLiteral ==
    (IsNew /\ arg.id.t \in {"list", "tuple"} /\ Supported(arg.id)) =>
        /\ obj.ok
        /\ KindOf(obj.val.v.cls) = "Array"
        /\ Encoded =>
            /\ wire.ok
            /\ wire.val.payload = Escaped(arg.table.v) \o <<":">> \o Formatted(arg.id)

\* Position i of s lies inside an angle pair or a pair of backticks.
InsideDelimiters(s, i) ==
    \/ Cardinality({j \in 1..(i - 1) : s[j] = LANGLE})
            > Cardinality({j \in 1..(i - 1) : s[j] = RANGLE})
    \/ Cardinality({j \in 1..(i - 1) : s[j] = BACKTICK}) % 2 = 1

\* Every delimiter of s that opens also closes, and none closes unopened.
WellDelimited(s) ==
    /\ \A i \in 1..(Len(s) + 1) :
            Cardinality({j \in 1..(i - 1) : s[j] = LANGLE})
                >= Cardinality({j \in 1..(i - 1) : s[j] = RANGLE})
    /\ ~InsideDelimiters(s, Len(s) + 1)

\* The colons of s outside every pair of delimiters.
TopLevelColons(s) == {i \in 1..Len(s) : s[i] = ":" /\ ~InsideDelimiters(s, i)}

\* C7: Thing.from_str(s) yields a RecordId only if s has a colon outside the
\* delimiters, and then splits at the first such colon; a string whose colons
\* all lie inside delimiters yields a Table.
C7_DelimiterAwareParse ==
    (op = "Thing.from_str" /\ WellDelimited(arg.data)) =>
        /\ obj.ok
        /\ IF TopLevelColons(arg.data) = {}
           THEN obj.val.v.cls = "Table"
           ELSE LET first == CHOOSE i \in TopLevelColons(arg.data) :
                                \A j \in TopLevelColons(arg.data) : i <= j
                IN  /\ obj.val.v.cls # "Table"
                    /\ obj.val.v.id.v = SubSeq(arg.data, first + 1, Len(arg.data))

\* The value encoded is a Table or a RecordId of thing.py.
IsThing == obj.ok /\ is_Table(obj.val)

\* C8: decoding the tag-6 payload that msgpack_encode made of a Thing yields
\* a Thing equal to it whose own wire literal is that payload.
C8_ThingRoundTrip ==
    (IsThing /\ wire.ok /\ Decoded) =>
        /\ back.ok
        /\ back.val.t = "Thing"
        /\ LET same == Thing_eq(back.val.v, obj.val.v)
               again == Thing_pack(back.val.v)
           IN  /\ same.ok
               /\ same.val.v
               /\ again.ok
               /\ again.val.v = wire.val.payload

\* C9: msgpack_decode dispatches on the tag: 1 yields None, 2 a UUID of the
\* payload text, 3 a Decimal, 4 a Duration, 5 a DateTime and 6 a Thing, each
\* as its parser decides, and every tag outside 1..6 fails with the
\* unknown-extension-code error and yields no value.
C9_DecodeDispatch ==
    Decoded =>
        CASE wire.val.tag = 1 -> back.ok /\ back.val.t = "NoneType"
          [] wire.val.tag = 2 ->
                back.ok /\ back.val.t = "UUID" /\ back.val.v = wire.val.payload
          [] wire.val.tag = 3 ->
                IF back.ok THEN back.val.t = "Decimal" ELSE back.err = "InvalidOperation"
          [] wire.val.tag = 4 ->
                IF back.ok THEN back.val.t = "Duration"
                ELSE back.err \in {"ValueError", "NotImplementedError"}
          [] wire.val.tag = 5 ->
                IF back.ok THEN back.val.t = "DateTime" ELSE back.err = "ValueError"
          [] wire.val.tag = 6 -> back.ok /\ back.val.t = "Thing"
          [] OTHER ->
                ~back.ok /\ back.err = "ValueError: Unknown msgpack extension code"

\* An extension value of tag 7 has been handed to msgpack_decode, which
\* raised.
C9_Witness ==
    /\ op = "msgpack_decode"
    /\ arg.code = 7
    /\ Decoded
    /\ ~back.ok

\* The tag of the kind of a value: 1 None, 2 UUID, 3 Decimal, 4 Duration or
\* timedelta, 5 DateTime or datetime, 6 Thing; 0 for any other value.
TagOf(x) ==
    CASE x.t = "NoneType" -> 1
      [] x.t = "UUID" -> 2
      [] x.t = "Decimal" -> 3
      [] x.t \in {"timedelta", "Duration"} -> 4
      [] x.t \in {"datetime", "DateTime"} -> 5
      [] is_Table(x) -> 6
      [] OTHER -> 0

\* C10: msgpack_encode of a value of one of the six kinds succeeds with the
\* extension tag of its kind; the payload of None is empty, and that of a
\* UUID or a Decimal is its text.
C10_EncodeTag ==
    (obj.ok /\ TagOf(obj.val) # 0 /\ Encoded) =>
        /\ wire.ok
        /\ wire.val.ext = "ExtType"
        /\ wire.val.tag = TagOf(obj.val)
        /\ obj.val.t = "NoneType" => wire.val.payload = << >>
        /\ obj.val.t \in {"UUID", "Decimal"} => wire.val.payload = obj.val.v

\* The value encoded is a duration.
IsDuration == obj.ok /\ obj.val.t \in {"timedelta", "Duration"}

\* The peer sent a duration text.
IsDurationText == op = "msgpack_decode" /\ arg.code = 4

\* C11: decoding the text a duration encodes to succeeds and yields the same
\* duration, whatever its day, second and microsecond components; and
\* decoding '90s' yields the duration of 90 seconds.
C11_DurationRoundTrip ==
    /\ (IsDuration /\ wire.ok /\ Decoded) =>
            /\ back.ok
            /\ back.val.v = obj.val.v
    /\ (IsDurationText /\ arg.data = <<"9", "0", "s">>) =>
            /\ back.ok
            /\ back.val.v = [days |-> 0, seconds |-> 90, microseconds |-> 0]

\* C12: the payload of a duration is '<days>d' when the day count is not
\* zero, then '<seconds>s' when the residual second count is not zero, then
\* '<microseconds>us' when the residual microsecond count is not zero, and
\* nothing else; 90 seconds encode as '90s'.
C12_DurationText ==
    (IsDuration /\ Encoded) =>
        /\ wire.ok
        /\ wire.val.tag = 4
        /\ wire.val.payload =
                (IF obj.val.v.days # 0 THEN int_str(obj.val.v.days) \o <<"d">> ELSE << >>)
                \o (IF obj.val.v.seconds # 0
                    THEN int_str(obj.val.v.seconds) \o <<"s">> ELSE << >>)
                \o (IF obj.val.v.microseconds # 0
                    THEN int_str(obj.val.v.microseconds) \o <<"u", "s">> ELSE << >>)
        /\ (obj.val.v = [days |-> 0, seconds |-> 90, microseconds |-> 0]) =>
                wire.val.payload = <<"9", "0", "s">>

\* A duration of exactly 90 seconds has been encoded.
C12_Witness ==
    /\ IsDuration
    /\ Encoded
    /\ obj.val.v.seconds = 90
    /\ obj.val.v.days = 0
    /\ obj.val.v.microseconds = 0

\* The units of a duration text in their order, each with its length in
\* seconds and in nanoseconds; the two spellings of the microsecond share a
\* rank.
DurationUnits ==
    <<[unit |-> <<"w">>, rank |-> 1, sec |-> 604800, ns |-> 0],
      [unit |-> <<"d">>, rank |-> 2, sec |-> 86400, ns |-> 0],
      [unit |-> <<"h">>, rank |-> 3, sec |-> 3600, ns |-> 0],
      [unit |-> <<"m">>, rank |-> 4, sec |-> 60, ns |-> 0],
      [unit |-> <<"s">>, rank |-> 5, sec |-> 1, ns |-> 0],
      [unit |-> <<"m", "s">>, rank |-> 6, sec |-> 0, ns |-> 1000000],
      [unit |-> <<"u", "s">>, rank |-> 7, sec |-> 0, ns |-> 1000],
      [unit |-> <<MICRO, "s">>, rank |-> 7, sec |-> 0, ns |-> 1000],
      [unit |-> <<"n", "s">>, rank |-> 8, sec |-> 0, ns |-> 1]>>

\* The length of the longest prefix of s whose characters are (are not)
\* digits.
RECURSIVE Run(_, _)
Run(s, digits) ==
    IF Len(s) = 0 \/ ((s[1] \in AsciiDigits) # digits) THEN 0
    ELSE 1 + Run(Tail(s), digits)

\* A text cut into '<n><unit>' components; a component without digits has
\* the count -1.
RECURSIVE Components(_)
Components(s) ==
    IF Len(s) = 0 THEN << >>
    ELSE LET nd == Run(s, TRUE)
             rest == SubSeq(s, nd + 1, Len(s))
             nu == Run(rest, FALSE)
         IN  <<[n |-> IF nd = 0 THEN -1 ELSE DigitsVal(SubSeq(s, 1, nd)),
                unit |-> SubSeq(rest, 1, nu)]>>
             \o Components(SubSeq(rest, nu + 1, Len(rest)))

UnitOf(u) == CHOOSE i \in 1..Len(DurationUnits) : DurationUnits[i].unit = u

\* A text of components with recognized units, each at most once, in order.
IsDurationGrammar(s) ==
    LET cs == Components(s)
    IN  /\ \A i \in 1..Len(cs) :
                /\ cs[i].n >= 0
                /\ \E j \in 1..Len(DurationUnits) : DurationUnits[j].unit = cs[i].unit
        /\ \A i \in 1..(Len(cs) - 1) :
                DurationUnits[UnitOf(cs[i].unit)].rank
                    < DurationUnits[UnitOf(cs[i + 1].unit)].rank

RECURSIVE SumOf(_, _)
SumOf(cs, field) ==
    IF Len(cs) = 0 THEN 0
    ELSE cs[1].n * DurationUnits[UnitOf(cs[1].unit)][field] + SumOf(Tail(cs), field)

\* The duration a text of the grammar stands for: the sum of its counts
\* times their units, nanoseconds cut to whole microseconds.
DurationOf(s) ==
    LET cs == Components(s)
        us == SumOf(cs, "ns") \div 1000
        sec == SumOf(cs, "sec") + (us \div 1000000)
    IN  [days |-> sec \div 86400, seconds |-> sec % 86400, microseconds |-> us % 1000000]

\* C13: Duration.from_str accepts every text of '<n><unit>' components in
\* the order w, d, h, m, s, ms, us or micro-s, ns, each optional, and returns
\* the sum of the counts times their units, nanoseconds cut to whole
\* microseconds; a text with a 'y' fails.
C13_DurationUnits ==
    IsDurationText =>
        /\ IsDurationGrammar(arg.data) =>
                /\ back.ok
                /\ back.val.v = DurationOf(arg.data)
        /\ Contains(arg.data, <<"y">>) => ~back.ok

\* C14: the wire literal of Table(n) is n itself when n is simple and n in
\* exactly one angle pair otherwise, names with colons included.
C14_TableLiteral ==
    (op = "Table" /\ Encoded) =>
        /\ wire.ok
        /\ wire.val.tag = 6
        /\ wire.val.payload = Escaped(arg.table.v)

\* C15: the stored name of a Table or RecordId is the canonical escaped form
\* of the raw name (bare if simple, else in one angle pair) after construction
\* from raw text, after construction from an existing Table or RecordId, which
\* copies the name, and after change_table, where the raw name is the new one.
C15_CanonicalName ==
    /\ (op \in {"Table", "RecordId.new", "Table(thing)"} /\ obj.ok) =>
            obj.val.v.table.v = Escaped(arg.table.v)
    /\ op = "Table(thing)" => obj.ok /\ obj.val.v.cls = "Table"
    /\ op = "change_table" => obj.ok /\ obj.val.v.table.v = Escaped(arg.data)

\* The delimiter pair of an escaper method.
OpenOf(method) == IF method \in {"auto_escape", "escape_angle"} THEN LANGLE ELSE BACKTICK

CloseOf(method) == IF method \in {"auto_escape", "escape_angle"} THEN RANGLE ELSE BACKTICK

\* C16: auto_escape(s) returns s unchanged exactly when s is simple (ASCII
\* letters, digits and underscore only, the empty text included); otherwise
\* it returns s inside the chosen delimiter pair, angle brackets by default
\* and backticks on request.
C16_AutoEscape ==
    op \in {"auto_escape", "auto_escape(backtick)"} =>
        /\ obj.ok
        /\ (obj.val.v = arg.data) <=> SimpleText(arg.data)
        /\ ~SimpleText(arg.data) =>
                obj.val.v = <<OpenOf(op)>> \o arg.data \o <<CloseOf(op)>>

\* Text that starts and ends with the delimiter pair of the method.
Delimited(method, s) ==
    /\ Len(s) >= 2
    /\ s[1] = OpenOf(method)
    /\ s[Len(s)] = CloseOf(method)

\* C17: escaping is idempotent: a text that is delimited already is returned
\* unchanged, with a warning and without an exception, and the same method
\* applied to its own result returns that result.
C17_EscapeIdempotent ==
    op \in Escapers =>
        /\ Delimited(op, arg.data) =>
                /\ obj.ok
                /\ obj.val.v = arg.data
                /\ warned
        /\ twice.err # "pending" => twice.ok /\ twice.val.v = obj.val.v

\* The text before and after the first colon of s, which has one.
BeforeColon(s) == SubSeq(s, 1, IndexOf(s, ":") - 1)

AfterColon(s) == SubSeq(s, IndexOf(s, ":") + 1, Len(s))

\* C18: RecordId.from_str raises InvalidRecordIdString when the text has no
\* colon or when the part before or after its first colon is empty, so it
\* succeeds only when both parts are non-empty.
C18_FromStrRejects ==
    op = "RecordId.from_str" =>
        /\ (\/ IndexOf(arg.data, ":") = 0
            \/ BeforeColon(arg.data) = << >>
            \/ AfterColon(arg.data) = << >>) =>
                ~obj.ok /\ obj.err = "InvalidRecordIdString"
        /\ obj.ok => /\ IndexOf(arg.data, ":") > 0
                     /\ BeforeColon(arg.data) # << >>
                     /\ AfterColon(arg.data) # << >>

\* The object the constructor makes from the two parts of table:id, the id
\* as an integer when it is digits only and as text otherwise.
Constructed(s) ==
    LET x == AfterColon(s)
    IN  RecordId_new(PyStr(BeforeColon(s)),
                     IF DigitOnly(PyStr(x)) THEN PyInt(DigitsVal(x)) ELSE PyStr(x))

\* C19: parsing agrees with construction: for a table t and an id text x
\* without a colon, Thing.from_str(t:x) succeeds and is equal (==) to the
\* object constructed from t and x, or from t and int(x) when x is digits only.
C19_ParseAgreesWithNew ==
    (/\ op = "Thing.from_str"
     /\ IndexOf(arg.data, ":") > 0
     /\ BeforeColon(arg.data) # << >>
     /\ AfterColon(arg.data) # << >>
     /\ IndexOf(AfterColon(arg.data), ":") = 0) =>
        /\ obj.ok
        /\ Constructed(arg.data).ok
        /\ Thing_eq(Constructed(arg.data).val, obj.val.v).ok
        /\ Thing_eq(Constructed(arg.data).val, obj.val.v).val.v

\* An array or object whose leaves are all text.
RECURSIVE TextOnly(_)
TextOnly(x) ==
    CASE x.t = "str" -> TRUE
      [] x.t \in {"list", "tuple"} -> \A i \in 1..Len(x.v) : TextOnly(x.v[i])
      [] x.t = "dict" ->
            \A i \in 1..Len(x.v) : x.v[i].k.t = "str" /\ TextOnly(x.v[i].val)
      [] OTHER -> FALSE

\* The spaced form: elements separated by a comma and a space, leaf strings in
\* single quotes, an object inside braces with a space on each side.
RECURSIVE Spaced(_)
Spaced(x) ==
    CASE x.t = "str" -> <<"'">> \o x.v \o <<"'">>
      [] x.t \in {"list", "tuple"} ->
            <<"[">> \o JoinChars(<<",", " ">>, [i \in 1..Len(x.v) |-> Spaced(x.v[i])]) \o <<"]">>
      [] x.t = "dict" ->
            <<"{", " ">> \o JoinChars(<<",", " ">>,
                        [i \in 1..Len(x.v) |->
                            Escaped(x.v[i].k.v) \o <<":", " ">> \o Spaced(x.v[i].val)])
                   \o <<" ", "}">>

IsComposite(x) == x.t \in {"list", "tuple", "dict"} /\ Len(x.v) > 0 /\ TextOnly(x)

\* C20: an array or object record id renders in the spaced, single-quoted
\* form, for RecordId(v) and RecordId.new(v) of record_id.py alike, and after
\* the table part and a colon for RecordId.new(table, v).
C20_SpacedLiteral ==
    /\ (op \in {"record_id.RecordId", "record_id.RecordId.new"} /\ IsComposite(arg.id)) =>
            /\ obj.ok
            /\ Encoded => wire.ok /\ wire.val.payload = Spaced(arg.id)
    /\ (IsNew /\ IsComposite(arg.id)) =>
            /\ obj.ok
            /\ Encoded =>
                /\ wire.ok
                /\ \E p \in TablePart(arg.table.v) :
                        wire.val.payload = p \o <<":">> \o Spaced(arg.id)

\* The call was pack_record_id(value) or pack_record_id(value, quote=True).
IsPack == op \in {"pack_record_id", "pack_record_id(quote)"}

\* A value of a shape the formatter renders: None, an integer, text, a
\* sequence or a mapping of such values, or an entity reference.
RECURSIVE Renderable(_)
Renderable(x) ==
    CASE x.t \in {"NoneType", "int", "str", "Thing"} -> TRUE
      [] x.t \in {"list", "tuple"} -> \A i \in 1..Len(x.v) : Renderable(x.v[i])
      [] x.t = "dict" ->
            \A i \in 1..Len(x.v) : x.v[i].k.t = "str" /\ Renderable(x.v[i].val)
      [] OTHER -> FALSE

\* None is the value or one of its leaves.
RECURSIVE HasNone(_)
HasNone(x) ==
    CASE x.t = "NoneType" -> TRUE
      [] x.t \in {"list", "tuple"} -> \E i \in 1..Len(x.v) : HasNone(x.v[i])
      [] x.t = "dict" -> \E i \in 1..Len(x.v) : HasNone(x.v[i].val)
      [] OTHER -> FALSE

\* C21: the formatter renders None: for a renderable value that is None or
\* holds None inside an array or object, pack_record_id returns text, and an
\* object id with a None leaf has a wire literal.
C21_NoneRendered ==
    /\ (IsPack /\ Renderable(arg.id) /\ HasNone(arg.id)) =>
            obj.ok /\ Len(obj.val.v) > 0
    /\ (IsNew /\ arg.id.t = "dict" /\ Renderable(arg.id) /\ HasNone(arg.id) /\ Encoded) =>
            wire.ok

\* C22: for every value that is not renderable, a float or a boolean at any
\* depth included, the formatter raises its unsupported-shape error (in the
\* code NotImplementedError) and returns no text.
C22_UnsupportedRaises ==
    (IsPack /\ ~Renderable(arg.id)) =>
        ~obj.ok /\ obj.err = "NotImplementedError"

\* C23: selecting a record id that does not exist is not an error: select
\* returns None when the response has no error and a null or absent result.
C23_SelectMissingReturnsNone ==
    (call.method = "select" /\ call.response = "null") =>
        call.raised = "none" /\ call.value = "None"

\* A list of Table objects.
ListOfTables(x) ==
    /\ x.t = "list"
    /\ Len(x.v) > 0
    /\ \A i \in 1..Len(x.v) : x.v[i].t = "Thing" /\ x.v[i].v.cls = "Table"

\* One record id: a RecordId, or text with a colon.
OneRecordId(x) ==
    \/ x.t = "Thing" /\ x.v.cls # "Table"
    \/ x.t = "str" /\ IndexOf(x.v, ":") > 0

\* A single table, a single record id, or a list of record ids.
AcceptedShape(x) ==
    \/ x.t = "Thing"
    \/ x.t = "str"
    \/ x.t = "list" /\ \A i \in 1..Len(x.v) : OneRecordId(x.v[i])

\* C24: select with a list of Table objects raises the cannot-create-thing
\* error before anything is sent, and select sends a request only for a
\* single table, a single record id or a list of record ids.
C24_SelectListOfTables ==
    call.method = "select" =>
        /\ ListOfTables(call.thing) =>
                call.raised = "CannotConvertIntoThing" /\ call.steps = << >>
        /\ call.steps # << >> => AcceptedShape(call.thing)

\* C25: unset_all sends one unset request for each defined variable, returns
\* without raising and leaves the variable set empty.
C25_UnsetAllEmpties ==
    [][call'.method = "unset_all" =>
            /\ call'.raised = "none"
            /\ variables' = {}
            /\ Len(sent') = Len(sent) + Cardinality(variables)
            /\ \A i \in (Len(sent) + 1)..Len(sent') : sent'[i].method = "unset"]_vars

\* C26: the ids of the requests sent by one client are 1, 2, 3, ... in the
\* order of sending, whatever the responses were.
C26_SequentialIds == \A i \in 1..Len(sent) : sent[i].id = i

\* Two requests have been sent and the response to the second was an error.
C26_Witness == Len(sent) = 2 /\ call.response = "error" /\ call.raised = "SurrealDBError"

\* C27: a let that succeeds adds its name to the variable set, an unset that
\* succeeds removes its name, a let or unset whose response has an error
\* raises SurrealDBError, one that raises leaves the set unchanged, and no
\* operation of one request other than these changes the set.
C27_VariableSet ==
    [][/\ (call'.method = "let" /\ call'.raised = "none") =>
                variables' = variables \cup {call'.name}
       /\ (call'.method = "unset" /\ call'.raised = "none") =>
                variables' = variables \ {call'.name}
       /\ (call'.method \in {"let", "unset"} /\ call'.response = "error") =>
                call'.raised = "SurrealDBError"
       /\ (call'.method \in {"let", "unset"} /\ call'.raised # "none") =>
                variables' = variables
       /\ call'.method \in (DOMAIN Receiver) \ {"let", "unset"} =>
                variables' = variables]_vars

\* x was defined by let, and an unset then got an error response.
C27_Witness ==
    /\ variables = {"x"}
    /\ call.method = "unset"
    /\ call.raised = "SurrealDBError"

\* C28: requests and responses alternate: an operation of one request has
\* either raised before sending, or sent once and then received once, and
\* the number of responses received equals the number of requests sent.
C28_Alternation ==
    /\ received = Len(sent)
    /\ call.method \in DOMAIN Receiver =>
            \/ call.steps = << >> /\ call.raised # "none"
            \/ call.steps = <<"send", "recv">>

\* The second of two operations sent its request and raised after receiving.
C28_Witness ==
    /\ Len(sent) = 2
    /\ received = 2
    /\ call.method = "select"
    /\ call.raised = "InvalidResponseError"


C30_EqualityTotalSymmetric ==
    last.op = "==" =>
        /\ last.ab \in {"True", "False"}
        /\ last.ba = last.ab
        /\ (Deref(last.a).cls = "Table") # (Deref(last.b).cls = "Table")
              => last.ab = "False"

=============================================================================
